---------------------------- MODULE Spec2Model ----------------------------
(***************************************************************************)
(* A model of package tsnet (Server, listener): the one-time Start and    *)
(* the steps of start() under it, the listener registry s.listeners        *)
(* guarded by s.mu, the flow-interception callbacks getTCPHandlerForFlow   *)
(* / getUDPHandlerForFlow, the handoff of connections from listener.handle *)
(* to listener.Accept over the unbuffered channel ln.conn, and the methods *)
(* Up, Loopback, Dial and Close of the Server.                             *)
(***************************************************************************)
EXTENDS Naturals, Sequences, FiniteSets, TLC

VARIABLES
    initOnce,   \* s.initOnce: "new", "running" (doInit in progress), "done"
    initErr,    \* s.initErr: "nil" or an error
    initRuns,   \* how many times doInit has been entered (observation)
    startRets,  \* the values Start has returned so far (observation)
    callers,    \* goroutines calling Start, directly or through a wrapper
    listeners,  \* s.listeners: a function from listenKey to listener id
    lns,        \* the listeners handed out so far, by id: key, whether ln.conn
                \* is closed, and two observations: how often it was closed and
                \* whether Accept was ever called on it
    mu,         \* s.mu: "free", or its holder
    closer,     \* the goroutine in Server.Close: "idle", "started", "shutdown",
                \* "locked", "blocked", "wait", "done"
    ret,        \* what the application's last Listen / Close call returned
    flows,      \* dispatcher goroutines, one per inbound flow
    accs,       \* application goroutines calling Accept
    cfg,        \* the Server's configuration: Store and Ephemeral
    handles,    \* the subsystem fields of the Server: "nil" or "set"
    shutdownLog,\* the subsystems' release calls, in the order made (observation)
    closeCalls, \* how many calls of Server.Close have begun
    flusher,    \* the log-flush goroutine of Server.Close: "idle", "run", "done"
    logouter,   \* the logout goroutine of Server.Close: "idle", "run", "done"
    up,         \* the application goroutine calling Up
    ctxDone,    \* whether the context passed to Up has been cancelled
    bus,        \* the IPN bus subscription of Up's watcher: "open" or "broken"
    loopback,   \* s.loopbackListener, s.proxyCred, s.localAPICred, and what
                \* Loopback has opened, generated and returned (observation)
    acquired,   \* the subsystems start() has created, in order (observation)
    authLoop,   \* the goroutine of printAuthURLLoop: where it is, and how many
                \* rounds of polling it began after the shutdown signal
                \* (observation)
    lbState     \* what s.lb.State() returns

startVars == <<initOnce, initErr, initRuns, startRets, callers>>
regVars == <<listeners, lns>>
closeVars == <<cfg, handles, shutdownLog, closeCalls, flusher, logouter>>
\* the variables of the later sections, which the registry, the dispatcher
\* and Start leave alone
upVars == <<up, ctxDone, bus>>
\* the variables of the sections after Server.Close
\* the variables of the sections after Up
authVars == <<authLoop, lbState>>
afterUpVars == <<loopback, acquired, authVars>>
afterCloseVars == <<upVars, afterUpVars>>
extVars == <<closeVars, afterCloseVars>>

vars == <<initOnce, initErr, initRuns, startRets, callers, listeners, lns, mu, closer, ret,
          flows, accs, extVars>>

----------------------------------------------------------------------------
(* Bounds *)

\* listeners a behaviour of Spec creates at most
MaxListeners == 2
\* registrations an initial state of SpecResolve holds at most
MaxReg == 2
\* calls of Server.Close a behaviour makes at most
MaxCloseCalls == 2
\* addresses a status holds at most
MaxIPs == 2
\* calls of Loopback a behaviour makes at most
MaxLoopbackCalls == 3

----------------------------------------------------------------------------
(* Values *)

\* netip.Addr: the zero value ("unspecified" in listenKey), or an IP
ZeroAddr == [fam |-> "zero", ip |-> ""]
IP4(s) == [fam |-> "4", ip |-> s]
IP6(s) == [fam |-> "6", ip |-> s]

Is4(a) == a.fam = "4"
Is6(a) == a.fam = "6"

NoLn == 0

EmptyMap == [k \in {} |-> NoLn]

\* strings.HasSuffix(network, "4") / (network, "6")
HasSuffix4(network) == network \in {"tcp4", "udp4"}
HasSuffix6(network) == network \in {"tcp6", "udp6"}

\* The network arguments tried: the seven Listen accepts, and one it rejects.
NetworkSeq == <<"", "tcp", "tcp4", "tcp6", "udp", "udp4", "udp6", "unix">>

\* The addr arguments tried.
AddrSeq == <<":80", "1.2.3.4:80", "0.0.0.0:80", "[::1]:80", ":53", "1.2.3.4:53",
             "1.2.3.4", "example.com:80", ":99999">>

\* net.SplitHostPort on the addr arguments tried
SplitHostPort(addr) ==
    CASE addr = ":80"            -> [host |-> "",            port |-> "80",    err |-> FALSE]
      [] addr = "1.2.3.4:80"     -> [host |-> "1.2.3.4",     port |-> "80",    err |-> FALSE]
      [] addr = "0.0.0.0:80"     -> [host |-> "0.0.0.0",     port |-> "80",    err |-> FALSE]
      [] addr = "[::1]:80"       -> [host |-> "::1",         port |-> "80",    err |-> FALSE]
      [] addr = ":53"            -> [host |-> "",            port |-> "53",    err |-> FALSE]
      [] addr = "1.2.3.4:53"     -> [host |-> "1.2.3.4",     port |-> "53",    err |-> FALSE]
      [] addr = "example.com:80" -> [host |-> "example.com", port |-> "80",    err |-> FALSE]
      [] addr = ":99999"         -> [host |-> "",            port |-> "99999", err |-> FALSE]
      [] OTHER                   -> [host |-> "",            port |-> "",      err |-> TRUE]

\* net.LookupPort on the port strings tried: out-of-range numbers are an error
LookupPort(network, portStr) ==
    CASE portStr = "80" -> [port |-> 80, err |-> FALSE]
      [] portStr = "53" -> [port |-> 53, err |-> FALSE]
      [] OTHER          -> [port |-> 0,  err |-> TRUE]

\* netip.ParseAddr on the hosts tried: an IP literal or an error
ParseAddr(host) ==
    CASE host = "1.2.3.4" -> [addr |-> IP4("1.2.3.4"), err |-> FALSE]
      [] host = "0.0.0.0" -> [addr |-> IP4("0.0.0.0"), err |-> FALSE]
      [] host = "::1"     -> [addr |-> IP6("::1"),     err |-> FALSE]
      [] OTHER            -> [addr |-> ZeroAddr,       err |-> TRUE]

\* listenKey{network, host, port}
listenKey(network, host, port) == [network |-> network, host |-> host, port |-> port]

\* Destinations of inbound flows (netip.AddrPort)
DstAddrs == {IP4("1.2.3.4"), IP4("100.64.0.2"), IP6("::1")}
DstPorts == {80, 53}
Dsts == [addr : DstAddrs, port : DstPorts]

----------------------------------------------------------------------------
(* Server.Listen, up to the registration *)

\* The argument checks of Listen: the key it will register, or the error
\* it returns before it calls Start.
ListenArgs(network, addr) ==
    LET hp == SplitHostPort(addr)
        lp == LookupPort(network, hp.port)
        pa == ParseAddr(hp.host)
        bindHostOrZero == IF hp.host # "" THEN pa.addr ELSE ZeroAddr
    IN  IF network \notin {"", "tcp", "tcp4", "tcp6", "udp", "udp4", "udp6"}
          THEN [err |-> "unsupported network type", key |-> listenKey("", ZeroAddr, 0)]
        ELSE IF hp.err
          THEN [err |-> "split host port", key |-> listenKey("", ZeroAddr, 0)]
        ELSE IF lp.err
          THEN [err |-> "invalid port", key |-> listenKey("", ZeroAddr, 0)]
        ELSE IF hp.host # "" /\ pa.err
          THEN [err |-> "invalid Listen addr", key |-> listenKey("", ZeroAddr, 0)]
        ELSE IF hp.host # "" /\ HasSuffix4(network) /\ ~Is4(bindHostOrZero)
          THEN [err |-> "invalid non-IPv4 addr", key |-> listenKey("", ZeroAddr, 0)]
        ELSE IF hp.host # "" /\ HasSuffix6(network) /\ ~Is6(bindHostOrZero)
          THEN [err |-> "invalid non-IPv6 addr", key |-> listenKey("", ZeroAddr, 0)]
        ELSE [err |-> "nil", key |-> listenKey(network, bindHostOrZero, lp.port)]

\* mak.Set(&s.listeners, key, ln)
MapSet(m, key, ln) ==
    [k \in DOMAIN m \cup {key} |-> IF k = key THEN ln ELSE m[k]]

\* a delete that removes nothing
MapDeleteNothing(m, key) == m

\* delete(ln.s.listeners, ln.key)
MapDelete(m, key) == [k \in DOMAIN m \ {key} |-> m[k]]

\* ListenLocked without the test of line 784: the new listener replaces
\* whatever the key held
ListenLockedOverwrite(reg, objs, key) ==
    [listeners |-> MapSet(reg, key, Len(objs) + 1),
     lns |-> Append(objs, [key |-> key, closed |-> FALSE, closes |-> 0, accepts |-> FALSE]),
     ret |-> [op |-> "Listen", err |-> "nil", ln |-> Len(objs) + 1]]

\* The locked section of Listen (lines 783-790) on registry reg with the
\* listener objects objs handed out so far: the registry, the objects and
\* the return value after it.
ListenLocked(reg, objs, key) ==
    LET ln == Len(objs) + 1
    IN  IF key \in DOMAIN reg
          THEN [listeners |-> reg, lns |-> objs,
                ret |-> [op |-> "Listen", err |-> "listener already open", ln |-> NoLn]]
          ELSE [listeners |-> MapSet(reg, key, ln),
                lns |-> Append(objs, [key |-> key, closed |-> FALSE, closes |-> 0, accepts |-> FALSE]),
                ret |-> [op |-> "Listen", err |-> "nil", ln |-> ln]]

----------------------------------------------------------------------------
(* Resolution of an inbound flow *)

\* networkForFamily(netBase, is6)
networkForFamily(netBase, is6) ==
    CASE netBase = "tcp" -> IF is6 THEN "tcp6" ELSE "tcp4"
      [] netBase = "udp" -> IF is6 THEN "udp6" ELSE "udp4"

\* LookupOrder with the two loops nested the other way round
LookupOrderNetOuter(netBase, dst) ==
    LET a1 == dst.addr
        a2 == ZeroAddr
        n1 == networkForFamily(netBase, Is6(dst.addr))
        n2 == netBase
    IN  << listenKey(n1, a1, dst.port), listenKey(n1, a2, dst.port),
           listenKey(n2, a1, dst.port), listenKey(n2, a2, dst.port) >>

\* LookupOrder that tries the unspecified address before the destination's
LookupOrderZeroFirst(netBase, dst) ==
    LET a1 == ZeroAddr
        a2 == dst.addr
        n1 == networkForFamily(netBase, Is6(dst.addr))
        n2 == netBase
    IN  << listenKey(n1, a1, dst.port), listenKey(n2, a1, dst.port),
           listenKey(n1, a2, dst.port), listenKey(n2, a2, dst.port) >>

\* The keys listenerForDstAddr looks up, in the order of its two loops:
\* for a in [dst.Addr(), zero Addr], for net in [family network, netBase].
LookupOrder(netBase, dst) ==
    LET a1 == dst.addr
        a2 == ZeroAddr
        n1 == networkForFamily(netBase, Is6(dst.addr))
        n2 == netBase
    IN  << listenKey(n1, a1, dst.port), listenKey(n2, a1, dst.port),
           listenKey(n1, a2, dst.port), listenKey(n2, a2, dst.port) >>

\* The loops' body from the i-th key on: return at the first key in the map.
RECURSIVE lookupFrom(_, _, _)
lookupFrom(reg, order, i) ==
    IF i > Len(order) THEN [ln |-> NoLn, ok |-> FALSE]
    ELSE IF order[i] \in DOMAIN reg THEN [ln |-> reg[order[i]], ok |-> TRUE]
    ELSE lookupFrom(reg, order, i + 1)

\* listenerForDstAddr on registry reg: [ln, ok]
listenerForDstAddrIn(reg, netBase, dst) ==
    lookupFrom(reg, LookupOrder(netBase, dst), 1)

listenerForDstAddr(netBase, dst) == listenerForDstAddrIn(listeners, netBase, dst)

\* getTCPHandlerForFlow that leaves an unmatched flow to the stack
getTCPHandlerNoIntercept(dst) ==
    LET r == listenerForDstAddr("tcp", dst)
    IN  IF ~r.ok THEN [handler |-> NoLn, intercept |-> FALSE]
                 ELSE [handler |-> r.ln, intercept |-> TRUE]

\* getTCPHandlerForFlow: [handler, intercept]; handler is the listener whose
\* handle method is returned, NoLn for a nil handler.
getTCPHandlerForFlow(dst) ==
    LET r == listenerForDstAddr("tcp", dst)
    IN  IF ~r.ok THEN [handler |-> NoLn, intercept |-> TRUE]
                 ELSE [handler |-> r.ln, intercept |-> TRUE]

\* getUDPHandlerForFlow that resolves among the TCP listeners
getUDPHandlerTCP(dst) ==
    LET r == listenerForDstAddr("tcp", dst)
    IN  IF ~r.ok THEN [handler |-> NoLn, intercept |-> TRUE]
                 ELSE [handler |-> r.ln, intercept |-> TRUE]

\* getUDPHandlerForFlow, likewise
getUDPHandlerForFlow(dst) ==
    LET r == listenerForDstAddr("udp", dst)
    IN  IF ~r.ok THEN [handler |-> NoLn, intercept |-> TRUE]
                 ELSE [handler |-> r.ln, intercept |-> TRUE]

----------------------------------------------------------------------------
(* Server.Start and doInit *)

\* goroutines that call Start
Callers == {"c1", "c2"}
\* Start itself and the methods that begin with s.Start()
StartOps == {"Start", "Dial", "Listen", "LocalClient", "Loopback", "Up"}
\* what s.start() can return to doInit: nil or an error
StartOutcomes == {"nil", "start failed"}

IdleCaller == [pc |-> "idle", op |-> "none", ret |-> "none"]

\* a Once that runs the function again after it is done
OnceDoAgain(once) ==
    CASE once = "new"     -> "run"
      [] once = "running" -> "wait"
      [] once = "done"    -> "run"

\* sync.Once.Do on the state of s.initOnce: "run" for the one caller that
\* runs the function, "wait" while that run is in progress, "skip" after
OnceDo(once) ==
    CASE once = "new"     -> "run"
      [] once = "running" -> "wait"
      [] once = "done"    -> "skip"

\* doInit wraps the error of s.start(): fmt.Errorf("tsnet: %w", err)
doInitErr(outcome) == IF outcome = "nil" THEN "nil" ELSE "tsnet: " \o outcome

\* a goroutine enters Start (directly or as the first statement of op)
\* and reaches s.initOnce.Do(s.doInit)
StartCall(c, op) ==
    /\ callers[c].pc \in {"idle", "returned"}
    /\ LET do == OnceDo(initOnce)
       IN  /\ callers' = [callers EXCEPT ![c] =
                 [pc |-> CASE do = "run" -> "doInit" [] do = "wait" -> "waitOnce" [] do = "skip" -> "afterDo",
                  op |-> op, ret |-> "none"]]
           /\ IF do = "run"
                THEN /\ initOnce' = "running"
                     /\ initRuns' = IF initRuns = 0 THEN 1 ELSE 2
                ELSE UNCHANGED <<initOnce, initRuns>>
    /\ UNCHANGED <<initErr, startRets, regVars, mu, closer, ret, flows, accs, extVars>>

\* doInit ends: s.start() returned outcome, s.initErr is set on an error,
\* and Do marks the Once done
DoInitReturn(c, outcome) ==
    /\ callers[c].pc = "doInit"
    /\ initErr' = IF outcome # "nil" THEN doInitErr(outcome) ELSE initErr
    /\ initOnce' = "done"
    /\ callers' = [callers EXCEPT ![c].pc = "afterDo"]
    /\ UNCHANGED <<initRuns, startRets, regVars, mu, closer, ret, flows, accs, extVars>>

\* a goroutine blocked in Do goes on once the Once is done
OnceWake(c) ==
    /\ callers[c].pc = "waitOnce"
    /\ OnceDo(initOnce) = "skip"
    /\ callers' = [callers EXCEPT ![c].pc = "afterDo"]
    /\ UNCHANGED <<initOnce, initErr, initRuns, startRets, regVars, mu, closer, ret, flows, accs, extVars>>

\* return s.initErr
StartReturn(c) ==
    /\ callers[c].pc = "afterDo"
    /\ callers' = [callers EXCEPT ![c].pc = "returned", ![c].ret = initErr]
    /\ startRets' = startRets \cup {initErr}
    /\ UNCHANGED <<initOnce, initErr, initRuns, regVars, mu, closer, ret, flows, accs, extVars>>

----------------------------------------------------------------------------
(* Threads *)

\* dispatcher goroutines of the virtual stack, one per inbound flow; the
\* connection of flow f is named f
Flows == {"f1", "f2"}
\* application goroutines that call Accept
Accs == {"a1"}

NoConn == "none"
NoDst == [addr |-> ZeroAddr, port |-> 0]

IdleFlow == [pc |-> "idle", netBase |-> "", dst |-> NoDst, handler |-> NoLn, intercept |-> FALSE,
             after |-> {}]
IdleAcc == [pc |-> "idle", ln |-> NoLn, conn |-> NoConn, err |-> "nil"]
NoRet == [op |-> "none", err |-> "nil", ln |-> NoLn]

\* the listeners the application holds a handle of
Handles == 1..Len(lns)

----------------------------------------------------------------------------
(* Server.Listen *)

\* Listen(network, addr), whole: the argument checks, Start (already run:
\* it returns s.initErr), and the locked registration.
Listen(network, addr) ==
    LET a == ListenArgs(network, addr)
        r == ListenLocked(listeners, lns, a.key)
    IN  /\ initOnce = "done"
        /\ IF a.err # "nil"
             THEN /\ ret' = [op |-> "Listen", err |-> a.err, ln |-> NoLn]
                  /\ UNCHANGED regVars
           ELSE IF initErr # "nil"
             THEN /\ ret' = [op |-> "Listen", err |-> initErr, ln |-> NoLn]
                  /\ UNCHANGED regVars
           ELSE /\ mu = "free"
                /\ r.ret.err = "nil" => Len(lns) < MaxListeners
                /\ listeners' = r.listeners
                /\ lns' = r.lns
                /\ ret' = r.ret
        /\ UNCHANGED <<startVars, mu, closer, flows, accs, extVars>>

----------------------------------------------------------------------------
(* listener.Close *)

\* close(ln.conn): closing a closed channel is a run-time panic, counted
\* here as a second close
CloseChan(o) == [o EXCEPT !.closed = TRUE, !.closes = IF o.closes = 0 THEN 1 ELSE 2]

\* the test of line 818 without "v == ln"
IsRegisteredAnyListener(reg, objs, ln) == objs[ln].key \in DOMAIN reg

\* the test of line 818: the map holds ln.key and holds this very listener
IsRegistered(reg, objs, ln) ==
    /\ objs[ln].key \in DOMAIN reg
    /\ reg[objs[ln].key] = ln

\* listener.Close, the section under s.mu
LnClose(ln) ==
    /\ ln \in Handles
    /\ mu = "free"
    /\ IF IsRegistered(listeners, lns, ln)
         THEN /\ listeners' = MapDelete(listeners, lns[ln].key)
              /\ lns' = [lns EXCEPT ![ln] = CloseChan(lns[ln])]
         ELSE UNCHANGED regVars
    /\ ret' = [op |-> "Close", err |-> "nil", ln |-> ln]
    /\ UNCHANGED <<startVars, mu, closer, flows, accs, extVars>>

----------------------------------------------------------------------------
(* Server.Close *)

\* the subsystem fields of the Server that Close looks at
Resources == {"netstack", "shutdownCancel", "lb", "linkMon", "dialer",
              "localAPIListener", "loopbackListener", "logtail", "logbuffer"}

\* the values of s.Store told apart: nil (start opens a file store), a
\* *mem.Store, or another store
Stores == {"nil", "mem", "file"}

\* the fields lines 318-339 release, in the order of the statements
CloseOrder == <<"netstack", "shutdownCancel", "lb", "linkMon", "dialer",
                "localAPIListener", "loopbackListener">>

\* the fields Close sets to nil after their release (line 320)
NilledOnClose == {"netstack"}

\* the statements of lines 318-339 taken from the last to the first
RECURSIVE closeHandlesBackwards(_, _, _)
closeHandlesBackwards(h, log, i) ==
    IF i > Len(CloseOrder) THEN [handles |-> h, log |-> log]
    ELSE LET r == CloseOrder[Len(CloseOrder) + 1 - i]
         IN  IF h[r] = "nil"
               THEN closeHandlesBackwards(h, log, i + 1)
               ELSE closeHandlesBackwards(IF r \in NilledOnClose THEN [h EXCEPT ![r] = "nil"] ELSE h,
                                          Append(log, r), i + 1)

\* lines 318-339 from the i-th statement on, on the fields h and the
\* release calls made so far: a field that is not nil is released
RECURSIVE closeHandlesFrom(_, _, _)
closeHandlesFrom(h, log, i) ==
    IF i > Len(CloseOrder) THEN [handles |-> h, log |-> log]
    ELSE LET r == CloseOrder[i]
         IN  IF h[r] = "nil"
               THEN closeHandlesFrom(h, log, i + 1)
               ELSE closeHandlesFrom(IF r \in NilledOnClose THEN [h EXCEPT ![r] = "nil"] ELSE h,
                                     Append(log, r), i + 1)

\* Close begins (lines 294-316): the goroutine of the final log flush is
\* started, and the one of the logout for an ephemeral node on a mem.Store
ServerCloseStart ==
    /\ initOnce = "done"
    /\ closer \in {"idle", "done"}
    /\ closeCalls < MaxCloseCalls
    /\ closeCalls' = closeCalls + 1
    /\ flusher' = "run"
    /\ logouter' = IF cfg.store = "mem" /\ cfg.ephemeral /\ handles["lb"] # "nil"
                     THEN "run" ELSE "idle"
    /\ closer' = "started"
    /\ UNCHANGED <<startVars, regVars, mu, ret, flows, accs, cfg, handles, shutdownLog,
                   afterCloseVars>>

\* lines 318-339: the subsystems are shut down one after the other
ServerCloseHandles ==
    /\ closer = "started"
    /\ LET r == closeHandlesFrom(handles, shutdownLog, 1)
       IN  /\ handles' = r.handles
           /\ shutdownLog' = r.log
    /\ closer' = "shutdown"
    /\ UNCHANGED <<startVars, regVars, mu, ret, flows, accs, cfg, closeCalls, flusher, logouter,
                   afterCloseVars>>

\* the flush goroutine (lines 298-307): s.logtail.Shutdown(ctx), which the
\* context ends after five seconds at the latest, then s.logbuffer.Close()
FlushLogs ==
    /\ flusher = "run"
    /\ LET l1 == IF handles["logtail"] # "nil" THEN Append(shutdownLog, "logtail") ELSE shutdownLog
       IN  shutdownLog' = IF handles["logbuffer"] # "nil" THEN Append(l1, "logbuffer") ELSE l1
    /\ flusher' = "done"
    /\ UNCHANGED <<startVars, regVars, mu, closer, ret, flows, accs, cfg, handles, closeCalls,
                   logouter, afterCloseVars>>

\* the logout goroutine (lines 311-315): s.lb.LogoutSync(ctx) returns
LogoutSync ==
    /\ logouter = "run"
    /\ logouter' = "done"
    /\ UNCHANGED <<startVars, regVars, mu, closer, ret, flows, accs, cfg, handles, shutdownLog,
                   closeCalls, flusher, afterCloseVars>>

\* s.mu.Lock() (line 341)
ServerCloseLock ==
    /\ initOnce = "done"
    /\ closer = "shutdown"
    /\ mu = "free"
    /\ mu' = "closer"
    /\ closer' = "locked"
    /\ UNCHANGED <<startVars, regVars, ret, flows, accs, extVars>>

\* for _, ln := range s.listeners { ln.Close() }; s.listeners = nil.
\* ln.Close locks s.mu, which this goroutine holds and sync.Mutex does not
\* allow twice: with a listener in the map the goroutine blocks there for
\* ever, holding the mutex.
ServerCloseListeners ==
    /\ closer = "locked"
    /\ IF DOMAIN listeners # {}
         THEN /\ closer' = "blocked"
              /\ UNCHANGED listeners
         ELSE /\ listeners' = EmptyMap
              /\ closer' = "wait"
    /\ UNCHANGED <<startVars, lns, mu, ret, flows, accs, extVars>>

\* wg.Wait() is over once the goroutines Close started have ended; return
\* nil, and the deferred s.mu.Unlock()
ServerCloseReturn ==
    /\ closer = "wait"
    /\ flusher # "run"
    /\ logouter # "run"
    /\ mu' = "free"
    /\ closer' = "done"
    /\ ret' = [op |-> "ServerClose", err |-> "nil", ln |-> NoLn]
    /\ UNCHANGED <<startVars, regVars, flows, accs, extVars>>

----------------------------------------------------------------------------
(* Server.start, under doInit *)

\* The steps of start() that can fail or that create a subsystem, in the
\* order of the code: the subsystem a step creates when it succeeds (its
\* field of the Server is set then), and the subsystem closePool gets
\* right after the step.
StartSteps == <<
    [name |-> "os.Executable",      acq |-> "none",             adds |-> "none"],
    [name |-> "store check",        acq |-> "none",             adds |-> "none"],
    [name |-> "rootPath",           acq |-> "none",             adds |-> "none"],
    [name |-> "logpolicy",          acq |-> "none",             adds |-> "none"],
    [name |-> "filch.New",          acq |-> "logbuffer",        adds |-> "logbuffer"],
    [name |-> "logtail.NewLogger",  acq |-> "logtail",          adds |-> "logtail"],
    [name |-> "monitor.New",        acq |-> "linkMon",          adds |-> "linkMon"],
    [name |-> "NewUserspaceEngine", acq |-> "dialer",           adds |-> "dialer"],
    [name |-> "GetInternals",       acq |-> "none",             adds |-> "none"],
    [name |-> "netstack.Create",    acq |-> "netstack",         adds |-> "none"],
    [name |-> "store.New",          acq |-> "none",             adds |-> "none"],
    [name |-> "NewLocalBackend",    acq |-> "lb",               adds |-> "none"],
    [name |-> "ns.Start",           acq |-> "none",             adds |-> "lb"],
    [name |-> "lb.Start",           acq |-> "none",             adds |-> "none"],
    [name |-> "memnet.Listen",      acq |-> "localAPIListener", adds |-> "localAPIListener"] >>

\* the steps that return no error
CannotFail == {"logtail.NewLogger", "memnet.Listen"}

\* where the environment can make start() fail, or "none"
StartFailAts ==
    {"none"} \cup ({StartSteps[i].name : i \in DOMAIN StartSteps} \ (CannotFail \cup {"store check"}))

StoreErr == "in-memory store is only supported for Ephemeral nodes"

\* a start() without the test of lines 399-405
StoreCheckNever(c) == FALSE

\* lines 399-405: a *mem.Store on a node that is not Ephemeral
StoreCheckFails(c) == c.store # "nil" /\ c.store = "mem" /\ ~c.ephemeral

\* start() from its i-th step on, on configuration c, failing at step
\* failAt if it gets there; st holds the fields, what was created, and
\* closePool. store.New runs only if s.Store is nil (line 503).
RECURSIVE startFrom(_, _, _, _)
startFrom(c, failAt, i, st) ==
    IF i > Len(StartSteps) THEN [st EXCEPT !.err = "nil"]
    ELSE LET s == StartSteps[i]
             skipped == s.name = "store.New" /\ c.store # "nil"
             fails == IF s.name = "store check" THEN StoreCheckFails(c)
                      ELSE s.name = failAt /\ ~skipped
         IN  IF fails
               THEN [st EXCEPT !.err = IF s.name = "store check" THEN StoreErr
                                       ELSE s.name \o " failed"]
               ELSE startFrom(c, failAt, i + 1,
                      [err |-> "nil",
                       handles |-> IF s.acq # "none" THEN [st.handles EXCEPT ![s.acq] = "set"]
                                   ELSE st.handles,
                       acquired |-> IF s.acq # "none" THEN Append(st.acquired, s.acq)
                                    ELSE st.acquired,
                       pool |-> IF s.adds # "none" THEN Append(st.pool, s.adds) ELSE st.pool])

\* The value a deferred call works on: a defer statement evaluates the
\* function value and the arguments of the call when it runs, and the
\* receiver of a method with a value receiver is one of them. The
\* receiver of "defer closePool.closeAllIfError(&reterr)" (line 386) is
\* closePool as it is there, not as it is when start() returns.
DeferValue(atDefer, atReturn) == atDefer

\* closeAllIfError (lines 576-582) on pool p: on an error every function
\* of p is called, in the order of p; log is the release calls made
closeAllIfError(p, err, log) == IF err # "nil" THEN log \o p ELSE log

\* start() on configuration c with the fields h: its error, the fields,
\* what it created, and the release calls after its deferred call
start(c, failAt, h, log) ==
    LET r == startFrom(c, failAt, 1,
                       [err |-> "nil", handles |-> h, acquired |-> << >>, pool |-> << >>])
    IN  [err |-> r.err, handles |-> r.handles, acquired |-> r.acquired,
         log |-> closeAllIfError(DeferValue(<< >>, r.pool), r.err, log)]

\* the states lb.State() can report once lb.Start has returned
LbStates == {"NeedsLogin", "Starting", "Running"}

\* the backend before lb.Start
NoLbState == "NoState"

\* the goroutine of printAuthURLLoop before start() has launched it
NoAuthLoop == [pc |-> "off", late |-> 0]

\* the goroutine as `go s.printAuthURLLoop()` (line 551) leaves it: at the
\* first statement of the loop
LaunchedAuthLoop == [pc |-> "ctxcheck", late |-> 0]

\* the step of start() whose success is followed by line 551: no step that
\* can fail comes after it
LaunchAfter == "lb.Start"

\* whether start(), failing at failAt, has reached line 551
ReachesLaunch(failAt) ==
    \A i \in DOMAIN StartSteps :
        StartSteps[i].name = failAt =>
            \E j \in DOMAIN StartSteps : StartSteps[j].name = LaunchAfter /\ j < i

\* doInit, whole (lines 352-357): the shutdown context, start(), the
\* error stored; Do marks the Once done. start() leaves the backend in the
\* state st when lb.Start has returned, and has launched the goroutine of
\* printAuthURLLoop when it has passed line 551.
DoInit(c, failAt) ==
    /\ callers[c].pc = "doInit"
    /\ LET r == start(cfg, failAt, [handles EXCEPT !["shutdownCancel"] = "set"], shutdownLog)
       IN  /\ initErr' = IF r.err # "nil" THEN doInitErr(r.err) ELSE initErr
           /\ handles' = r.handles
           /\ acquired' = r.acquired
           /\ shutdownLog' = r.log
           /\ IF r.err = "nil" \/ ReachesLaunch(failAt)
                THEN /\ authLoop' = LaunchedAuthLoop
                     /\ \E st \in LbStates : lbState' = st
                ELSE UNCHANGED authVars
    /\ initOnce' = "done"
    /\ callers' = [callers EXCEPT ![c].pc = "afterDo"]
    /\ UNCHANGED <<initRuns, startRets, regVars, mu, closer, ret, flows, accs, cfg, closeCalls,
                   flusher, logouter, upVars, loopback>>

\* Dial, whole (lines 121-126), Start having run: its error, or what
\* s.dialer.UserDial returns
DialCall(dialErr) ==
    /\ initOnce = "done"
    /\ ret' = [op |-> "Dial",
               err |-> IF initErr # "nil" THEN initErr
                       ELSE IF dialErr THEN "dial failed" ELSE "nil",
               ln |-> NoLn]
    /\ UNCHANGED <<startVars, regVars, mu, closer, flows, accs, extVars>>

----------------------------------------------------------------------------
(* Server.Up *)

\* ipn.State, and "none" for a notification whose State is nil
NotifyStates == {"none", "NoState", "InUseOtherUser", "NeedsLogin", "NeedsMachineAuth",
                 "Stopped", "Starting", "Running"}

\* what watcher.Next() returns: an error, or a notification with its
\* ErrMessage (nil or not) and its State
ErrEvent == [nextErr |-> "watch ended", errMessage |-> FALSE, state |-> "none"]
Notifications == [nextErr : {"nil"}, errMessage : BOOLEAN, state : NotifyStates]
WatchEvents == Notifications \cup {ErrEvent}
NoEvent == [nextErr |-> "nil", errMessage |-> FALSE, state |-> "none"]

\* what lc.Status(ctx) returns: an error, or a status with so many
\* TailscaleIPs
Statuses == [err : BOOLEAN, ips : 0..MaxIPs]
NoStatus == [err |-> FALSE, ips |-> 0]

IdleUp == [pc |-> "idle", err |-> "nil", ips |-> 0, last |-> NoEvent, st |-> NoStatus]

\* the context whose cancellation ends the watcher: the one Up passes to
\* lc.WatchIPNBus (line 255), the caller's
WatchCtx == "caller"

\* whether the context named is done: the caller's, or s.shutdownCtx,
\* which s.shutdownCancel() of Close cancels
CtxDone(c) ==
    CASE c = "caller"   -> ctxDone
      [] c = "shutdown" -> \E i \in DOMAIN shutdownLog : shutdownLog[i] = "shutdownCancel"

\* watcher.Next() has an error to return: the subscription's context is
\* done, or the subscription has failed
WatchNextErr == CtxDone(WatchCtx) \/ bus = "broken"

\* the loop body without the test of line 272
UpLoopBodyNoIPCheck(ev, st) ==
    IF ev.nextErr # "nil"
      THEN [pc |-> "returned", err |-> "tsnet.Up: " \o ev.nextErr, ips |-> 0]
    ELSE IF ev.errMessage
      THEN [pc |-> "returned", err |-> "tsnet.Up: backend: message", ips |-> 0]
    ELSE IF ev.state # "none" /\ ev.state = "Running"
      THEN IF st.err
             THEN [pc |-> "returned", err |-> "tsnet.Up: status failed", ips |-> 0]
             ELSE [pc |-> "returned", err |-> "nil", ips |-> st.ips]
    ELSE [pc |-> "next", err |-> "nil", ips |-> 0]

\* one turn of the loop of Up (lines 261-287) on what Next returned and,
\* for a Running notification, what lc.Status returned: return or go round
UpLoopBody(ev, st) ==
    IF ev.nextErr # "nil"
      THEN [pc |-> "returned", err |-> "tsnet.Up: " \o ev.nextErr, ips |-> 0]
    ELSE IF ev.errMessage
      THEN [pc |-> "returned", err |-> "tsnet.Up: backend: message", ips |-> 0]
    ELSE IF ev.state # "none" /\ ev.state = "Running"
      THEN IF st.err
             THEN [pc |-> "returned", err |-> "tsnet.Up: status failed", ips |-> 0]
           ELSE IF st.ips = 0
             THEN [pc |-> "returned", err |-> "tsnet.Up: running, but no ip", ips |-> 0]
           ELSE [pc |-> "returned", err |-> "nil", ips |-> st.ips]
    ELSE [pc |-> "next", err |-> "nil", ips |-> 0]

\* Up, to the loop (lines 250-259): LocalClient, which calls Start, then
\* lc.WatchIPNBus, which may fail
UpCall(watchErr) ==
    /\ up.pc \in {"idle", "returned"}
    /\ initOnce = "done"
    /\ up' = IF initErr # "nil"
               THEN [IdleUp EXCEPT !.pc = "returned", !.err = "tsnet.Up: " \o initErr]
             ELSE IF watchErr
               THEN [IdleUp EXCEPT !.pc = "returned", !.err = "tsnet.Up: watch failed"]
             ELSE [IdleUp EXCEPT !.pc = "next"]
    /\ UNCHANGED <<startVars, regVars, mu, closer, ret, flows, accs, closeVars, ctxDone, bus,
                   afterUpVars>>

\* watcher.Next() returns ev, and the loop body runs on it; st is what
\* lc.Status returns if the body calls it
UpNext(ev, st) ==
    /\ up.pc = "next"
    /\ ev.nextErr # "nil" => WatchNextErr
    /\ LET r == UpLoopBody(ev, st)
           called == ev.nextErr = "nil" /\ ~ev.errMessage /\ ev.state = "Running"
       IN  up' = [pc |-> r.pc, err |-> r.err, ips |-> r.ips, last |-> ev,
                  st |-> IF called THEN st ELSE NoStatus]
    /\ UNCHANGED <<startVars, regVars, mu, closer, ret, flows, accs, closeVars, ctxDone, bus,
                   afterUpVars>>

\* the caller cancels the context it gave to Up
CtxCancel ==
    /\ ~ctxDone
    /\ ctxDone' = TRUE
    /\ UNCHANGED <<startVars, regVars, mu, closer, ret, flows, accs, closeVars, up, bus,
                   afterUpVars>>

\* the subscription fails
BusFail ==
    /\ bus = "open"
    /\ bus' = "broken"
    /\ UNCHANGED <<startVars, regVars, mu, closer, ret, flows, accs, closeVars, up, ctxDone,
                   afterUpVars>>

----------------------------------------------------------------------------
(* Server.Loopback *)

\* what Loopback returns: the address (named by the socket's number), the
\* two credentials (named by the number of the crand.Read that made them)
\* and the error
NoLoopRet == [addr |-> 0, proxyCred |-> 0, localAPICred |-> 0, err |-> "none"]
LoopErr(e) == [addr |-> 0, proxyCred |-> 0, localAPICred |-> 0, err |-> e]
LoopOk(lb) == [addr |-> lb.ln, proxyCred |-> lb.proxyCred, localAPICred |-> lb.localAPICred,
               err |-> "nil"]

\* ln = 0 is a nil s.loopbackListener, a credential 0 the empty string
NoLoopback == [ln |-> 0, proxyCred |-> 0, localAPICred |-> 0, socks |-> 0, rands |-> 0,
               calls |-> 0, hits |-> 0, first |-> NoLoopRet, ret |-> NoLoopRet]

\* where a call of Loopback can fail: the two crand.Read, net.Listen
LoopbackFailAts == {"none", "rand1", "rand2", "listen"}

\* lines 171-216, whatever s.loopbackListener is
LoopbackSetUp(lb, failAt) ==
    IF failAt = "rand1" THEN [lb EXCEPT !.ret = LoopErr("crand.Read")]
    ELSE LET l1 == [lb EXCEPT !.rands = lb.rands + 1, !.proxyCred = lb.rands + 1]
         IN  IF failAt = "rand2" THEN [l1 EXCEPT !.ret = LoopErr("crand.Read")]
             ELSE LET l2 == [l1 EXCEPT !.rands = l1.rands + 1, !.localAPICred = l1.rands + 1]
                  IN  IF failAt = "listen" THEN [l2 EXCEPT !.ret = LoopErr("net.Listen")]
                      ELSE LET l3 == [l2 EXCEPT !.socks = l2.socks + 1, !.ln = l2.socks + 1]
                           IN  [l3 EXCEPT !.ret = LoopOk(l3)]

\* a Loopback without the test of line 170
LoopbackRunNoNilCheck(lb, failAt) == LoopbackSetUp(lb, failAt)

\* Loopback after its s.Start() (lines 170-223): the set-up if
\* s.loopbackListener is nil, then the address and the credentials stored;
\* hits counts the calls that found the listener set (observation)
LoopbackRun(lb, failAt) ==
    IF lb.ln = 0
      THEN LoopbackSetUp(lb, failAt)
      ELSE [lb EXCEPT !.ret = LoopOk(lb), !.hits = IF lb.hits = 0 THEN 1 ELSE 2]

\* a call of Loopback, whole
LoopbackCall(failAt) ==
    /\ initOnce = "done"
    /\ loopback.calls < MaxLoopbackCalls
    /\ LET r == IF initErr # "nil" THEN [loopback EXCEPT !.ret = LoopErr(initErr)]
                ELSE LoopbackRun(loopback, failAt)
       IN  /\ loopback' = [r EXCEPT !.calls = loopback.calls + 1,
                                    !.first = IF r.ret.err = "nil" /\ loopback.first = NoLoopRet
                                                THEN r.ret ELSE loopback.first]
           /\ handles' = IF r.ln # 0 THEN [handles EXCEPT !["loopbackListener"] = "set"]
                          ELSE handles
    /\ UNCHANGED <<startVars, regVars, mu, closer, ret, flows, accs, cfg, shutdownLog, closeCalls,
                   flusher, logouter, upVars, acquired, authVars>>

----------------------------------------------------------------------------
(* The dispatcher: resolution, then listener.handle *)

Resolved(f, netBase, dst, h) ==
    [flows EXCEPT ![f] = [pc |-> IF h.handler = NoLn THEN "nohandler" ELSE "handler",
                          netBase |-> netBase, dst |-> dst,
                          handler |-> h.handler, intercept |-> h.intercept, after |-> {}]]

\* the virtual stack asks for the handler of a TCP flow to dst
GetTCPHandlerForFlow(f, dst) ==
    /\ flows[f].pc = "idle"
    /\ initOnce = "done" /\ initErr = "nil"
    /\ mu = "free"
    /\ flows' = Resolved(f, "tcp", dst, getTCPHandlerForFlow(dst))
    /\ UNCHANGED <<startVars, regVars, mu, closer, ret, accs, extVars>>

\* the virtual stack asks for the handler of a UDP flow to dst
GetUDPHandlerForFlow(f, dst) ==
    /\ flows[f].pc = "idle"
    /\ initOnce = "done" /\ initErr = "nil"
    /\ mu = "free"
    /\ flows' = Resolved(f, "udp", dst, getUDPHandlerForFlow(dst))
    /\ UNCHANGED <<startVars, regVars, mu, closer, ret, accs, extVars>>

\* a handle that returns at once and leaves the send to another goroutine
HandleReturnedAtOnce(fl) == fl.pc \in {"select", "sent", "closed", "panic"}

\* whether the call of handle for a flow has returned: handle returns (or
\* panics) out of its select, after the send or after the timer
HandleReturned(fl) == fl.pc \in {"sent", "closed", "panic"}

\* the stack calls the handler with the connection: handle starts its
\* timer and reaches the select. The flow notes the flows whose call of
\* handle on the same listener had returned by then (observation, kept
\* while the connection is not dropped).
Handle(f) ==
    /\ flows[f].pc = "handler"
    /\ flows' = [flows EXCEPT ![f].pc = "select",
                              ![f].after = {g \in Flows \ {f} :
                                               /\ HandleReturned(flows[g])
                                               /\ flows[g].handler = flows[f].handler}]
    /\ UNCHANGED <<startVars, regVars, mu, closer, ret, accs, extVars>>

\* a select that takes both of its cases: the connection is sent and, the
\* timer firing too, closed
SelectSendAndTimer(f, a) ==
    /\ flows[f].pc = "select"
    /\ accs[a].pc = "recv"
    /\ accs[a].ln = flows[f].handler
    /\ ~lns[flows[f].handler].closed
    /\ flows' = [flows EXCEPT ![f].pc = "closed"]
    /\ accs' = [accs EXCEPT ![a] = [pc |-> "idle", ln |-> accs[a].ln, conn |-> f, err |-> "nil"]]
    /\ UNCHANGED <<startVars, regVars, mu, closer, ret, extVars>>

\* case ln.conn <- c: the channel is unbuffered, so the send happens
\* together with the receive of an Accept blocked on it
SelectSend(f, a) ==
    /\ flows[f].pc = "select"
    /\ accs[a].pc = "recv"
    /\ accs[a].ln = flows[f].handler
    /\ ~lns[flows[f].handler].closed
    /\ flows' = [flows EXCEPT ![f].pc = "sent"]
    /\ accs' = [accs EXCEPT ![a] = [pc |-> "idle", ln |-> accs[a].ln, conn |-> f, err |-> "nil"]]
    /\ UNCHANGED <<startVars, regVars, mu, closer, ret, extVars>>

\* case ln.conn <- c on a closed channel: a send on a closed channel
\* panics, whether the channel was closed before the select or while
\* the goroutine was blocked in it
SelectSendClosed(f) ==
    /\ flows[f].pc = "select"
    /\ lns[flows[f].handler].closed
    /\ flows' = [flows EXCEPT ![f].pc = "panic", ![f].after = {}]
    /\ UNCHANGED <<startVars, regVars, mu, closer, ret, accs, extVars>>

\* case <-t.C: the timer of one second fired; c.Close()
SelectTimeout(f) ==
    /\ flows[f].pc = "select"
    /\ flows' = [flows EXCEPT ![f].pc = "closed", ![f].after = {}]
    /\ UNCHANGED <<startVars, regVars, mu, closer, ret, accs, extVars>>

----------------------------------------------------------------------------
(* listener.Accept *)

\* the application calls ln.Accept() and blocks in the receive
AcceptCall(a, ln) ==
    /\ accs[a].pc = "idle"
    /\ ln \in Handles
    /\ accs' = [accs EXCEPT ![a] = [pc |-> "recv", ln |-> ln, conn |-> NoConn, err |-> "nil"]]
    /\ lns' = [lns EXCEPT ![ln].accepts = TRUE]
    /\ UNCHANGED <<startVars, listeners, mu, closer, ret, flows, extVars>>

\* c, ok := <-ln.conn with the channel closed: ok is false, Accept returns
\* net.ErrClosed
AcceptClosed(a) ==
    /\ accs[a].pc = "recv"
    /\ lns[accs[a].ln].closed
    /\ accs' = [accs EXCEPT ![a] = [pc |-> "idle", ln |-> accs[a].ln, conn |-> NoConn, err |-> "ErrClosed"]]
    /\ UNCHANGED <<startVars, regVars, mu, closer, ret, flows, extVars>>

----------------------------------------------------------------------------
(* Spec: a started node, its application and its dispatcher *)

\* the Listen calls and the destination tried in Spec
SpecCalls == {<<"tcp4", "1.2.3.4:80">>, <<"tcp", "0.0.0.0:80">>, <<"tcp", ":80">>,
              <<"udp", ":80">>, <<"tcp", "1.2.3.4">>}
SpecDsts == {[addr |-> IP4("1.2.3.4"), port |-> 80]}

\* a node whose Start has run and succeeded: the registry is touched only
\* behind the s.Start() check of Listen (line 771)
InitStarted ==
    /\ initOnce = "done"
    /\ initErr = "nil"
    /\ initRuns = 1
    /\ startRets = {"nil"}
    /\ callers = [c \in Callers |-> IdleCaller]

\* the subsystem fields after a start() that succeeded: all set but the
\* loopback listener, which Loopback sets
StartedHandles == [r \in Resources |-> IF r = "loopbackListener" THEN "nil" ELSE "set"]

\* what a start() that succeeded has created, in order
StartedAcquired == <<"logbuffer", "logtail", "linkMon", "dialer", "netstack", "lb",
                     "localAPIListener">>

\* no Close has been called
InitClose ==
    /\ handles = StartedHandles
    /\ shutdownLog = <<>>
    /\ closeCalls = 0
    /\ flusher = "idle"
    /\ logouter = "idle"

\* Up has not been called
InitUp ==
    /\ up = IdleUp
    /\ ctxDone = FALSE
    /\ bus = "open"

\* the backend is running and the goroutine of printAuthURLLoop, having
\* seen that, has returned (lines 602-605)
InitAuth ==
    /\ authLoop = [pc |-> "exited", late |-> 0]
    /\ lbState = "Running"

\* the variables of the sections after Server.Close, before any call
InitAfterClose ==
    /\ InitUp
    /\ loopback = NoLoopback
    /\ acquired = StartedAcquired
    /\ InitAuth

\* the zero Server but for Dir: Store nil, Ephemeral false
DefaultCfg == [store |-> "nil", ephemeral |-> FALSE]

\* the later sections' variables on a started node of the default
\* configuration
InitExt ==
    /\ cfg = DefaultCfg
    /\ InitClose
    /\ InitAfterClose

Init ==
    /\ InitStarted
    /\ listeners = EmptyMap
    /\ lns = <<>>
    /\ mu = "free"
    /\ closer = "idle"
    /\ ret = NoRet
    /\ flows = [f \in Flows |-> IdleFlow]
    /\ accs = [a \in Accs |-> IdleAcc]
    /\ InitExt

Next ==
    \/ \E call \in SpecCalls : Listen(call[1], call[2])
    \/ \E ln \in 1..MaxListeners : LnClose(ln)
    \/ \E f \in Flows, dst \in SpecDsts : GetTCPHandlerForFlow(f, dst)
    \/ \E f \in Flows, dst \in SpecDsts : GetUDPHandlerForFlow(f, dst)

Spec == Init /\ [][Next]_vars

----------------------------------------------------------------------------
(* SpecHandoff: the handoff from listener.handle to listener.Accept *)

HandoffCalls == {<<"tcp", ":80">>, <<"udp", ":80">>}
\* the flows that may arrive as UDP; every flow may arrive as TCP
UDPFlows == {"f1"}

NextHandoff ==
    \/ \E call \in HandoffCalls : Listen(call[1], call[2])
    \/ \E ln \in 1..MaxListeners : LnClose(ln)
    \/ \E f \in Flows, dst \in SpecDsts : GetTCPHandlerForFlow(f, dst)
    \/ \E f \in UDPFlows, dst \in SpecDsts : GetUDPHandlerForFlow(f, dst)
    \/ \E f \in Flows : Handle(f)
    \/ \E f \in Flows, a \in Accs : SelectSend(f, a)
    \/ \E f \in Flows : SelectSendClosed(f)
    \/ \E f \in Flows : SelectTimeout(f)
    \/ \E a \in Accs, ln \in 1..MaxListeners : AcceptCall(a, ln)
    \/ \E a \in Accs : AcceptClosed(a)

SpecHandoff == Init /\ [][NextHandoff]_vars

----------------------------------------------------------------------------
(* SpecResolve: listenerForDstAddr on every registry of up to MaxReg keys *)

\* the Listen calls tried, numbered
NumCalls == Len(NetworkSeq) * Len(AddrSeq)
CallNetwork(i) == NetworkSeq[((i - 1) \div Len(AddrSeq)) + 1]
CallAddr(i) == AddrSeq[((i - 1) % Len(AddrSeq)) + 1]

\* the registry after the Listen calls cs[1], ..., cs[n] on a started node
RECURSIVE AfterListens(_, _)
AfterListens(cs, n) ==
    IF n = 0 THEN [listeners |-> EmptyMap, lns |-> << >>]
    ELSE LET before == AfterListens(cs, n - 1)
             a == ListenArgs(CallNetwork(cs[n]), CallAddr(cs[n]))
             r == ListenLocked(before.listeners, before.lns, a.key)
         IN  IF a.err # "nil" THEN before
             ELSE [listeners |-> r.listeners, lns |-> r.lns]

InitResolve ==
    /\ InitStarted
    /\ \E n \in 0..MaxReg : \E cs \in [1..n -> 1..NumCalls] :
          /\ \A i \in 1..n : \A j \in 1..n : i < j => cs[i] < cs[j]
          /\ listeners = AfterListens(cs, n).listeners
          /\ lns = AfterListens(cs, n).lns
    /\ mu = "free"
    /\ closer = "idle"
    /\ ret = NoRet
    /\ flows = [f \in Flows |-> IdleFlow]
    /\ accs = [a \in Accs |-> IdleAcc]
    /\ InitExt

NextResolve ==
    \/ \E dst \in Dsts : GetTCPHandlerForFlow("f1", dst)
    \/ \E dst \in Dsts : GetUDPHandlerForFlow("f1", dst)

SpecResolve == InitResolve /\ [][NextResolve]_vars

----------------------------------------------------------------------------
(* SpecStart: goroutines calling Start on a new Server *)

InitStart ==
    /\ initOnce = "new"
    /\ initErr = "nil"
    /\ initRuns = 0
    /\ startRets = {}
    /\ callers = [c \in Callers |-> IdleCaller]
    /\ listeners = EmptyMap
    /\ lns = << >>
    /\ mu = "free"
    /\ closer = "idle"
    /\ ret = NoRet
    /\ flows = [f \in Flows |-> IdleFlow]
    /\ accs = [a \in Accs |-> IdleAcc]
    /\ InitExt

NextStart ==
    \/ \E c \in Callers, op \in StartOps : StartCall(c, op)
    \/ \E c \in Callers, outcome \in StartOutcomes : DoInitReturn(c, outcome)
    \/ \E c \in Callers : OnceWake(c)
    \/ \E c \in Callers : StartReturn(c)

SpecStart == InitStart /\ [][NextStart]_vars

----------------------------------------------------------------------------
(* The registry: Listen *)

\* the destination and the keys of the example: a TCP flow to 1.2.3.4:80
Dst1234 == [addr |-> IP4("1.2.3.4"), port |-> 80]
KeySpecific == listenKey("tcp4", IP4("1.2.3.4"), 80)
KeyUnspecified == listenKey("tcp", ZeroAddr, 80)
KeyLiteralZeros == listenKey("tcp", IP4("0.0.0.0"), 80)

\* what every flow would resolve to is the same before and after the step
SameResolution ==
    \A netBase \in {"tcp", "udp"}, dst \in Dsts :
        listenerForDstAddrIn(listeners', netBase, dst) = listenerForDstAddrIn(listeners, netBase, dst)

\* C1: a Listen whose key is already in the registry returns the "listener
\* already open" error and no listener, and leaves the registry as it was:
\* the key still maps to the original listener, whose channel is still
\* open, and every flow resolves as before.
C1_ListenNeverOverwrites ==
    [][\A call \in SpecCalls :
          LET a == ListenArgs(call[1], call[2])
          IN  (Listen(call[1], call[2]) /\ a.err = "nil" /\ a.key \in DOMAIN listeners)
              => /\ ret'.err = "listener already open"
                 /\ ret'.ln = NoLn
                 /\ DOMAIN listeners' = DOMAIN listeners
                 /\ listeners'[a.key] = listeners[a.key]
                 /\ ~lns'[listeners[a.key]].closed
                 /\ Len(lns') = Len(lns)
                 /\ SameResolution]_vars

\* C1 witness: a Listen has just been refused for a bound key, and a flow
\* has resolved to the listener registered first.
C1_Witness ==
    /\ ret.op = "Listen" /\ ret.err = "listener already open"
    /\ KeySpecific \in DOMAIN listeners
    /\ \E f \in Flows : flows[f].pc = "handler" /\ flows[f].handler = listeners[KeySpecific]

----------------------------------------------------------------------------
(* The registry: resolution *)

\* the network of the destination's family: netBase with "4" or "6" appended
FamilyNetwork(netBase, dst) == netBase \o (IF dst.addr.fam = "6" THEN "6" ELSE "4")

\* the first registered key among k1, k2, k3, k4, as [ln, ok]
FirstPresent(k1, k2, k3, k4) ==
    IF k1 \in DOMAIN listeners THEN [ln |-> listeners[k1], ok |-> TRUE]
    ELSE IF k2 \in DOMAIN listeners THEN [ln |-> listeners[k2], ok |-> TRUE]
    ELSE IF k3 \in DOMAIN listeners THEN [ln |-> listeners[k3], ok |-> TRUE]
    ELSE IF k4 \in DOMAIN listeners THEN [ln |-> listeners[k4], ok |-> TRUE]
    ELSE [ln |-> NoLn, ok |-> FALSE]

\* what the claimed order gives for netBase and dst
ClaimedResolve(netBase, dst) ==
    FirstPresent(listenKey(FamilyNetwork(netBase, dst), dst.addr, dst.port),
                 listenKey(netBase, dst.addr, dst.port),
                 listenKey(FamilyNetwork(netBase, dst), ZeroAddr, dst.port),
                 listenKey(netBase, ZeroAddr, dst.port))

\* a flow whose resolution has been made
HasResolved(f) == flows[f].pc # "idle"

\* C2: for every registry and destination, listenerForDstAddr with base b
\* returns the listener of the first key present among (b+family, address,
\* port), (b, address, port), (b+family, unspecified, port), (b,
\* unspecified, port), and ok = false exactly when none of the four is
\* registered; the handler a flow was given is that listener.
C2_ResolveOrder ==
    /\ \A netBase \in {"tcp", "udp"}, dst \in Dsts :
          listenerForDstAddr(netBase, dst) = ClaimedResolve(netBase, dst)
    /\ \A f \in Flows :
          HasResolved(f) => flows[f].handler = ClaimedResolve(flows[f].netBase, flows[f].dst).ln

\* C2 witness: with the first two keys absent and both unspecified-address
\* keys bound, a TCP flow got the listener of the family key.
C2_Witness ==
    /\ flows["f1"].pc = "handler" /\ flows["f1"].netBase = "tcp" /\ flows["f1"].dst = Dst1234
    /\ KeySpecific \notin DOMAIN listeners
    /\ listenKey("tcp", IP4("1.2.3.4"), 80) \notin DOMAIN listeners
    /\ listenKey("tcp4", ZeroAddr, 80) \in DOMAIN listeners
    /\ KeyUnspecified \in DOMAIN listeners
    /\ flows["f1"].handler = listeners[listenKey("tcp4", ZeroAddr, 80)]

\* the original C3, with the second listener bound to the literal address
\* 0.0.0.0: first the specific listener, and after its Close the other one
C3_AsClaimed ==
    [][\A f \in Flows :
          /\ (GetTCPHandlerForFlow(f, Dst1234)
                /\ KeySpecific \in DOMAIN listeners /\ KeyLiteralZeros \in DOMAIN listeners)
             => flows'[f].handler = listeners[KeySpecific]
          /\ (GetTCPHandlerForFlow(f, Dst1234)
                /\ (\E l \in Handles : lns[l].key = KeySpecific)
                /\ (\A l \in Handles : lns[l].key = KeySpecific => lns[l].closed)
                /\ KeyLiteralZeros \in DOMAIN listeners)
             => flows'[f].handler = listeners[KeyLiteralZeros]]_vars

\* C3 (amended): with listeners bound to ("tcp4", 1.2.3.4, 80) and to
\* ("tcp", unspecified address, 80), a TCP flow to 1.2.3.4:80 resolves to
\* the first; once the first has been closed (and no other listener holds
\* the two keys that come before), the same resolution gives the second.
C3_SpecificThenUnspecified ==
    [][\A f \in Flows :
          /\ (GetTCPHandlerForFlow(f, Dst1234)
                /\ KeySpecific \in DOMAIN listeners /\ KeyUnspecified \in DOMAIN listeners)
             => flows'[f].handler = listeners[KeySpecific]
          /\ (GetTCPHandlerForFlow(f, Dst1234)
                /\ (\E l \in Handles : lns[l].key = KeySpecific)
                /\ (\A l \in Handles : lns[l].key = KeySpecific => lns[l].closed)
                /\ KeyUnspecified \in DOMAIN listeners)
             => flows'[f].handler = listeners[KeyUnspecified]]_vars

\* C3 witness: one flow resolved to the specific listener, which was then
\* closed, and the next flow resolved to the listener of the unspecified
\* address.
C3_Witness ==
    \E l1 \in Handles, l2 \in Handles :
        /\ lns[l1].key = KeySpecific /\ lns[l1].closed
        /\ lns[l2].key = KeyUnspecified /\ ~lns[l2].closed
        /\ flows["f1"].netBase = "tcp" /\ flows["f1"].handler = l1
        /\ flows["f2"].netBase = "tcp" /\ flows["f2"].handler = l2

\* C4: the UDP entry point never gives a flow a listener bound to tcp,
\* tcp4 or tcp6, and the TCP entry point never one bound to udp, udp4 or
\* udp6, whatever else is bound to the same address and port.
C4_NoCrossTransport ==
    /\ \A dst \in Dsts :
          /\ getUDPHandlerForFlow(dst).handler # NoLn
                => lns[getUDPHandlerForFlow(dst).handler].key.network \notin {"tcp", "tcp4", "tcp6"}
          /\ getTCPHandlerForFlow(dst).handler # NoLn
                => lns[getTCPHandlerForFlow(dst).handler].key.network \notin {"udp", "udp4", "udp6"}
    /\ \A f \in Flows :
          flows[f].pc = "handler" =>
             /\ flows[f].netBase = "udp"
                   => lns[flows[f].handler].key.network \notin {"tcp", "tcp4", "tcp6"}
             /\ flows[f].netBase = "tcp"
                   => lns[flows[f].handler].key.network \notin {"udp", "udp4", "udp6"}

\* C4 witness: a UDP listener on the unspecified address and a tcp4
\* listener on 1.2.3.4, both on port 53, and a UDP flow to 1.2.3.4:53 that
\* got the UDP listener.
C4_Witness ==
    /\ listenKey("udp", ZeroAddr, 53) \in DOMAIN listeners
    /\ listenKey("tcp4", IP4("1.2.3.4"), 53) \in DOMAIN listeners
    /\ flows["f1"].pc = "handler" /\ flows["f1"].netBase = "udp"
    /\ flows["f1"].dst = [addr |-> IP4("1.2.3.4"), port |-> 53]
    /\ flows["f1"].handler = listeners[listenKey("udp", ZeroAddr, 53)]

\* the original C5: a flow that matches no listener is not intercepted, and
\* a flow is intercepted only when a listener was found
C5_AsClaimed ==
    \A f \in Flows :
        HasResolved(f) => (flows[f].intercept <=> flows[f].handler # NoLn)

\* C5 (amended): when no registered listener matches the destination, the
\* TCP entry point (and likewise the UDP one) returns no handler with
\* intercept = true, "intercept but drop"; it returns a handler exactly
\* when a listener was found, and intercept is true in both cases.
C5_InterceptAlways ==
    \A f \in Flows :
        HasResolved(f) =>
           /\ flows[f].intercept = TRUE
           /\ flows[f].handler # NoLn <=> ClaimedResolve(flows[f].netBase, flows[f].dst).ok

\* C5 witness: a TCP flow to a destination nothing is bound for came back
\* with no handler, while a listener is registered for something else.
C5_Witness ==
    /\ flows["f1"].pc = "nohandler" /\ flows["f1"].netBase = "tcp"
    /\ flows["f1"].handler = NoLn /\ flows["f1"].intercept
    /\ DOMAIN listeners # {}

----------------------------------------------------------------------------
(* The handoff *)

\* a push that is over: delivered, dropped at the timer, or ended by a panic
PushOver(f) == flows[f].pc \in {"sent", "closed", "panic"}

\* C6 as claimed: every push to a listener on which Accept was never
\* called ends with the dispatcher closing the connection at the timer.
C6_AsClaimed ==
    \A f \in Flows :
        (PushOver(f) /\ ~lns[flows[f].handler].accepts) => flows[f].pc = "closed"

\* C7 as claimed: no interleaving of listener.Close with a push makes
\* handle send on a closed channel, which panics the dispatcher goroutine.
C7_AsClaimed ==
    \A f \in Flows : flows[f].pc # "panic"

\* C8: the first Close of a listener removes its key from the registry and
\* closes its channel; an Accept blocked on, or called on, a listener with
\* a closed channel can return, and returns only net.ErrClosed and no
\* connection; every further Close leaves the registry and every listener
\* as they are; no channel is closed twice.
C8_CloseIdempotent ==
    /\ [](\A l \in Handles : lns[l].closes <= 1)
    /\ [](\A a \in Accs :
            (accs[a].pc = "recv" /\ lns[accs[a].ln].closed) => ENABLED AcceptClosed(a))
    /\ [][\A l \in 1..MaxListeners :
            LnClose(l) =>
               IF ~lns[l].closed
                 THEN /\ lns'[l].closed
                      /\ lns'[l].closes = 1
                      /\ lns[l].key \notin DOMAIN listeners'
                 ELSE UNCHANGED regVars]_vars
    /\ [][\A a \in Accs :
            (accs[a].pc = "recv" /\ lns[accs[a].ln].closed /\ accs'[a] # accs[a])
               => (accs'[a].pc = "idle" /\ accs'[a].err = "ErrClosed" /\ accs'[a].conn = NoConn)]_vars

\* C8 witness: listener l was closed, a listener made later holds its key,
\* the application's last call is one more Close of l, which closed
\* nothing, and an Accept on l returned net.ErrClosed.
C8_Witness ==
    \E l \in Handles, l2 \in Handles :
        /\ l < l2 /\ lns[l2].key = lns[l].key
        /\ lns[l].closed /\ lns[l].closes = 1 /\ ~lns[l2].closed
        /\ ret.op = "Close" /\ ret.ln = l
        /\ accs["a1"].pc = "idle" /\ accs["a1"].ln = l /\ accs["a1"].err = "ErrClosed"

\* C9: a Close of a listener A that was closed before, while a newer
\* listener B is registered under A's key, changes neither the registry nor
\* any listener: B keeps the key, B's channel stays open, and every flow
\* resolves as before.
C9_StaleCloseNoOp ==
    [][\A a \in 1..MaxListeners :
          (/\ LnClose(a)
           /\ lns[a].closed
           /\ lns[a].key \in DOMAIN listeners
           /\ listeners[lns[a].key] # a)
          => /\ listeners' = listeners
             /\ lns' = lns
             /\ ~lns'[listeners[lns[a].key]].closed
             /\ SameResolution]_vars

\* C9 witness: A closed, B registered under the same key, then Close on A
\* again as the application's last call, and a flow resolved to B.
C9_Witness ==
    \E a \in Handles, b \in Handles :
        /\ a # b /\ lns[a].key = lns[b].key
        /\ lns[a].closed /\ ~lns[b].closed
        /\ listeners[lns[b].key] = b
        /\ ret.op = "Close" /\ ret.ln = a
        /\ \E f \in Flows : flows[f].pc = "handler" /\ flows[f].handler = b

----------------------------------------------------------------------------
(* Start *)

\* C10: doInit is entered at most once; a goroutine is past Do, or back
\* from Start, only when that run is over; all values Start has returned,
\* to whatever callers and through whatever method, are one and the same,
\* namely s.initErr as the one run left it.
C10_StartOnce ==
    /\ initRuns <= 1
    /\ \A c \in Callers : callers[c].pc \in {"afterDo", "returned"} => initOnce = "done"
    /\ Cardinality(startRets) <= 1
    /\ \A c \in Callers : callers[c].pc = "returned" => callers[c].ret = initErr

\* C10 witness: the one run failed, and two goroutines, through different
\* methods, both got its error.
C10_Witness ==
    /\ initRuns = 1
    /\ initErr = "tsnet: start failed"
    /\ callers["c1"].pc = "returned" /\ callers["c1"].op = "Listen"
    /\ callers["c2"].pc = "returned" /\ callers["c2"].op = "Up"
    /\ callers["c1"].ret = initErr /\ callers["c2"].ret = initErr


----------------------------------------------------------------------------
(* C11, C19, C20: Server.Close and the registry *)

\* C11: Server.Close always eventually returns, whatever number of
\* listeners is still registered: as long as the call has begun and not
\* returned, the closing goroutine has a step to take.
C11_AsClaimed ==
    closer \notin {"idle", "done"} =>
        ENABLED (\/ ServerCloseHandles
                 \/ ServerCloseLock
                 \/ ServerCloseListeners
                 \/ FlushLogs
                 \/ LogoutSync
                 \/ ServerCloseReturn)

\* C19: in every reachable state no listener whose channel is closed is in
\* the registry, and no destination resolves to one: a resolution that
\* starts once a Close is over never returns the closed listener.
C19_ClosedNotRegistered ==
    /\ \A k \in DOMAIN listeners : ~lns[listeners[k]].closed
    /\ \A netBase \in {"tcp", "udp"}, dst \in Dsts :
          LET r == listenerForDstAddr(netBase, dst)
          IN  r.ok => ~lns[r.ln].closed
    /\ \A dst \in Dsts :
          /\ getTCPHandlerForFlow(dst).handler # NoLn
                => ~lns[getTCPHandlerForFlow(dst).handler].closed
          /\ getUDPHandlerForFlow(dst).handler # NoLn
                => ~lns[getUDPHandlerForFlow(dst).handler].closed

\* a listener was closed, its key was bound again, and a flow to that key
\* then resolved to the new listener
C19_Witness ==
    \E l1 \in Handles, l2 \in Handles, f \in Flows :
        /\ l1 # l2
        /\ lns[l1].closed
        /\ lns[l2].key = lns[l1].key
        /\ flows[f].handler = l2

\* C20: once Server.Close has returned, no step adds an entry to the
\* registry and no flow is resolved to a listener.
C20_AsClaimed ==
    [][closer = "done" =>
          /\ DOMAIN listeners' \subseteq DOMAIN listeners
          /\ \A f \in Flows :
                flows'[f] # flows[f] => flows'[f].handler = NoLn]_vars

----------------------------------------------------------------------------
(* SpecClose: Server.Close, called again after it has returned *)

\* the configurations start() accepts (lines 399-405)
StartedCfgs == {c \in [store : Stores, ephemeral : BOOLEAN] :
                    ~(c.store = "mem" /\ ~c.ephemeral)}

CloseCalls == {<<"tcp", ":80">>, <<"udp", ":80">>}

InitSpecClose ==
    /\ InitStarted
    /\ listeners = EmptyMap
    /\ lns = <<>>
    /\ mu = "free"
    /\ closer = "idle"
    /\ ret = NoRet
    /\ flows = [f \in Flows |-> IdleFlow]
    /\ accs = [a \in Accs |-> IdleAcc]
    /\ cfg \in StartedCfgs
    /\ InitClose
    /\ InitAfterClose

NextClose ==
    \/ \E call \in CloseCalls : Listen(call[1], call[2])
    \/ \E ln \in 1..MaxListeners : LnClose(ln)
    \/ ServerCloseStart
    \/ ServerCloseHandles
    \/ FlushLogs
    \/ LogoutSync
    \/ ServerCloseLock
    \/ ServerCloseListeners
    \/ ServerCloseReturn
    \/ \E dst \in SpecDsts : GetTCPHandlerForFlow("f1", dst)

SpecClose == InitSpecClose /\ [][NextClose]_vars

\* how many times the release of subsystem r was called
Releases(r) == Cardinality({i \in DOMAIN shutdownLog : shutdownLog[i] = r})

\* C12: Server.Close called twice in sequence returns no error, and no
\* subsystem is released more than once across the calls.
C12_AsClaimed ==
    /\ ret.op = "ServerClose" => ret.err = "nil"
    /\ \A r \in Resources : Releases(r) <= 1

----------------------------------------------------------------------------
(* SpecUp: Up waiting for the running state, and Server.Close *)

NextUp ==
    \/ \E watchErr \in BOOLEAN : UpCall(watchErr)
    \/ \E ev \in WatchEvents, st \in Statuses : UpNext(ev, st)
    \/ CtxCancel
    \/ BusFail
    \/ closeCalls = 0 /\ ServerCloseStart
    \/ ServerCloseHandles
    \/ FlushLogs
    \/ ServerCloseLock
    \/ ServerCloseListeners
    \/ ServerCloseReturn

SpecUp == Init /\ [][NextUp]_vars

\* the states for which the claim says that Up keeps waiting
WaitingStates == {"NeedsLogin", "NeedsMachineAuth", "Starting", "Stopped"}

UpSucceeded(u) == u.pc = "returned" /\ u.err = "nil"
UpFailed(u) == u.pc = "returned" /\ u.err # "nil"

\* C13: an Up blocked in its wait returns an error once Close has been
\* invoked: after Close, and even when it has returned, the waiting Up has
\* an error to return without any notification from the backend and without
\* the caller's context being cancelled.
C13_AsClaimed ==
    (up.pc = "next" /\ closer = "done") =>
        ENABLED (\E st \in Statuses : UpNext(ErrEvent, st))

\* C14: in every turn of Up's loop, Up returns a status only on a Running
\* notification with at least one address in the status; it returns an
\* error when Next fails (the context cancelled, the subscription failed),
\* on a notification with an error message, and on Running with no
\* address; on a notification of any other state, with no error message,
\* it keeps waiting.
C14_UpOutcomes ==
    [][\A ev \in WatchEvents, st \in Statuses :
          UpNext(ev, st) =>
            /\ UpSucceeded(up') =>
                  ev.state = "Running" /\ st.ips >= 1 /\ up'.ips = st.ips
            /\ ev.nextErr # "nil" => UpFailed(up')
            /\ ev.nextErr = "nil" /\ ev.errMessage => UpFailed(up')
            /\ (ev.nextErr = "nil" /\ ~ev.errMessage /\ ev.state = "Running" /\ st.ips = 0)
                  => UpFailed(up')
            /\ (ev.nextErr = "nil" /\ ~ev.errMessage /\ ev.state \in WaitingStates)
                  => up'.pc = "next"]_vars

\* Up has returned a status with an address, on a Running notification
C14_Witness ==
    /\ UpSucceeded(up)
    /\ up.ips >= 1
    /\ up.last.state = "Running"

----------------------------------------------------------------------------
(* SpecFifo: two flows, the first resolved before the second *)

NextFifo ==
    \/ \E call \in HandoffCalls : Listen(call[1], call[2])
    \/ \E dst \in SpecDsts : GetTCPHandlerForFlow("f1", dst)
    \/ \E dst \in SpecDsts : flows["f1"].pc # "idle" /\ GetTCPHandlerForFlow("f2", dst)
    \/ \E f \in Flows : Handle(f)
    \/ \E f \in Flows, a \in Accs : SelectSend(f, a)
    \/ \E f \in Flows : SelectTimeout(f)
    \/ \E a \in Accs, ln \in 1..MaxListeners : AcceptCall(a, ln)

SpecFifo == Init /\ [][NextFifo]_vars

\* C15 as claimed: of two flows to the same listener, the one resolved
\* first (f1 in SpecFifo) is never delivered after the other has been.
C15_AsClaimed ==
    [][\A a \in Accs :
          (SelectSend("f1", a) /\ flows["f2"].handler = flows["f1"].handler)
              => flows["f2"].pc # "sent"]_vars

\* C15: of two flows to the same listener, a flow whose call of handle had
\* returned before the other's began is never delivered after the other:
\* pushes made one after the other are accepted in that order.
C15_SequentialFifo ==
    [][\A f \in Flows, g \in Flows, a \in Accs :
          (/\ SelectSend(f, a)
           /\ f # g
           /\ flows[g].handler = flows[f].handler
           /\ flows[g].pc = "sent")
              => f \notin flows[g].after]_vars

\* both flows were delivered by the same listener, the second pushed after
\* the push of the first had returned
C15_Witness ==
    \E f \in Flows, g \in Flows :
        /\ f # g
        /\ flows[f].pc = "sent" /\ flows[g].pc = "sent"
        /\ flows[f].handler = flows[g].handler
        /\ f \in flows[g].after

----------------------------------------------------------------------------
(* SpecLoopback: calls of Loopback on a started node, and Server.Close *)

NextLoopback ==
    \/ \E failAt \in LoopbackFailAts : LoopbackCall(failAt)
    \/ closeCalls = 0 /\ ServerCloseStart
    \/ ServerCloseHandles
    \/ FlushLogs
    \/ ServerCloseLock
    \/ ServerCloseListeners
    \/ ServerCloseReturn

SpecLoopback == Init /\ [][NextLoopback]_vars

\* C16: every call of Loopback that succeeds returns what the first
\* successful call returned; at most one socket is ever opened; a call
\* made once the gateway is established succeeds, opens no socket and
\* generates no credential; a call that fails leaves no gateway
\* established.
C16_LoopbackIdempotent ==
    /\ [](loopback.ret.err = "nil" => loopback.ret = loopback.first)
    /\ [](loopback.socks <= 1)
    /\ [][\A failAt \in LoopbackFailAts :
            (LoopbackCall(failAt) /\ loopback.ln # 0) =>
                /\ loopback'.ret = loopback.first
                /\ loopback'.ret.err = "nil"
                /\ loopback'.socks = loopback.socks
                /\ loopback'.rands = loopback.rands
                /\ loopback'.proxyCred = loopback.proxyCred
                /\ loopback'.localAPICred = loopback.localAPICred]_vars
    /\ [][\A failAt \in LoopbackFailAts :
            (LoopbackCall(failAt) /\ loopback'.ret.err # "nil") =>
                /\ loopback'.ln = 0
                /\ handles'["loopbackListener"] = "nil"]_vars

\* a call failed after it had generated credentials, a later call
\* established the gateway, and a call after that returned it again
C16_Witness ==
    /\ loopback.hits >= 1
    /\ loopback.rands >= 3
    /\ loopback.ln # 0
    /\ loopback.ret = loopback.first
    /\ loopback.ret.err = "nil"

----------------------------------------------------------------------------
(* SpecInit: the first Start on every configuration, failing at any step *)

InitCalls == {<<"tcp", ":80">>}

InitNew ==
    /\ initOnce = "new"
    /\ initErr = "nil"
    /\ initRuns = 0
    /\ startRets = {}
    /\ callers = [c \in Callers |-> IdleCaller]
    /\ listeners = EmptyMap
    /\ lns = << >>
    /\ mu = "free"
    /\ closer = "idle"
    /\ ret = NoRet
    /\ flows = [f \in Flows |-> IdleFlow]
    /\ accs = [a \in Accs |-> IdleAcc]
    /\ cfg \in [store : Stores, ephemeral : BOOLEAN]
    /\ handles = [r \in Resources |-> "nil"]
    /\ shutdownLog = << >>
    /\ closeCalls = 0
    /\ flusher = "idle"
    /\ logouter = "idle"
    /\ InitUp
    /\ loopback = NoLoopback
    /\ acquired = << >>
    /\ authLoop = NoAuthLoop
    /\ lbState = NoLbState

NextInit ==
    \/ \E c \in Callers, op \in {"Start", "Listen"} : StartCall(c, op)
    \/ \E c \in Callers, failAt \in StartFailAts : DoInit(c, failAt)
    \/ \E c \in Callers : OnceWake(c)
    \/ \E c \in Callers : StartReturn(c)
    \/ \E call \in InitCalls : Listen(call[1], call[2])
    \/ \E dialErr \in BOOLEAN : DialCall(dialErr)

SpecInit == InitNew /\ [][NextInit]_vars

RECURSIVE Reverse(_)
Reverse(s) == IF s = << >> THEN << >> ELSE Append(Reverse(Tail(s)), Head(s))

StartFailed == initOnce = "done" /\ initErr # "nil"

\* C17: when start() has failed, every subsystem it had created has been
\* released, the most recently created first.
C17_AsClaimed ==
    StartFailed => shutdownLog = Reverse(acquired)

BadStore == cfg.store = "mem" /\ ~cfg.ephemeral
BadStoreErr == "tsnet: " \o StoreErr

\* the errors of Start on such a node: the store check's, or that of
\* os.Executable, the one step before it
BadStoreErrs == {BadStoreErr, "tsnet: os.Executable failed"}

\* C18: on a node with a mem.Store and not Ephemeral, Start fails (with
\* the store error unless os.Executable failed first), nothing has been
\* created and no subsystem field is set, and every Start, Listen and Dial
\* returns that error and registers nothing; with Ephemeral set the store
\* check passes.
C18_StoreCheck ==
    /\ (BadStore /\ initOnce = "done") =>
          /\ initErr \in BadStoreErrs
          /\ acquired = << >>
          /\ \A r \in Resources \ {"shutdownCancel"} : handles[r] = "nil"
    /\ BadStore =>
          /\ startRets \subseteq {initErr} /\ startRets \subseteq BadStoreErrs
          /\ \A c \in Callers : callers[c].pc = "returned" => callers[c].ret = initErr
          /\ ret.op \in {"Listen", "Dial"} =>
                ret.err = initErr /\ ret.err \in BadStoreErrs /\ ret.ln = NoLn
          /\ DOMAIN listeners = {}
          /\ lns = << >>
    /\ (cfg.store = "mem" /\ cfg.ephemeral) => initErr # BadStoreErr

\* Start has failed on the store check and a Listen has returned its error
C18_Witness ==
    /\ BadStore
    /\ initErr = BadStoreErr
    /\ ret.op = "Listen"
    /\ ret.err = BadStoreErr
    /\ \E c \in Callers : callers[c].pc = "returned" /\ callers[c].ret = BadStoreErr

-----------------------------------------------------------------------------
(* C21: the registry mutex and the waits of Server.Close *)

\* the goroutine of Server.Close holds s.mu (lines 341-342) and is waiting:
\* in ln.Close on a second s.mu.Lock() (line 816), or in wg.Wait() (line
\* 348) for a goroutine of the log flush or of the logout that still runs
CloserWaitsWithLock ==
    /\ mu = "closer"
    /\ \/ closer = "blocked"
       \/ closer = "wait" /\ (flusher = "run" \/ logouter = "run")

\* C21: in no reachable state does a thread hold the registry mutex while
\* it waits on anything else (a log flush, a logout, a wait-group, a channel
\* operation or a second acquisition of the same mutex).
C21_AsClaimed == ~CloserWaitsWithLock

-----------------------------------------------------------------------------
(* Server.printAuthURLLoop (lines 597-616) *)

\* how many rounds of polling begun after the shutdown signal are told
\* apart; the count stays there
MaxLate == 2

\* s.shutdownCtx is cancelled: Close has called s.shutdownCancel (line 323)
ShutdownSignaled == \E i \in DOMAIN shutdownLog : shutdownLog[i] = "shutdownCancel"

\* a loop that does not test s.shutdownCtx.Err() at its head
AfterCtxCheckNever(sig) == "statecheck"

\* lines 599-601: return when the shutdown context is cancelled
AfterCtxCheck(sig) == IF sig THEN "exited" ELSE "statecheck"

\* lines 602-605: log and return when the state is not NeedsLogin
AfterStateCheck(st) == IF st # "NeedsLogin" THEN "exited" ELSE "poll"

\* lines 610-614: the select returns on the cancelled context, or goes
\* round after five seconds; with both ready either case can be taken
AfterSelect(sig) == IF sig THEN {"exited", "ctxcheck"} ELSE {"ctxcheck"}

AuthCtxCheck ==
    /\ authLoop.pc = "ctxcheck"
    /\ authLoop' = [authLoop EXCEPT !.pc = AfterCtxCheck(ShutdownSignaled)]
    /\ UNCHANGED <<startVars, regVars, mu, closer, ret, flows, accs, closeVars, upVars,
                   loopback, acquired, lbState>>

AuthStateCheck ==
    /\ authLoop.pc = "statecheck"
    /\ authLoop' = [authLoop EXCEPT !.pc = AfterStateCheck(lbState)]
    /\ UNCHANGED <<startVars, regVars, mu, closer, ret, flows, accs, closeVars, upVars,
                   loopback, acquired, lbState>>

\* lines 606-609: s.lb.StatusWithoutPeers(), and the URL logged when the
\* status has one
AuthPoll ==
    /\ authLoop.pc = "poll"
    /\ authLoop' = [pc |-> "select",
                    late |-> IF ShutdownSignaled /\ authLoop.late < MaxLate
                               THEN authLoop.late + 1 ELSE authLoop.late]
    /\ UNCHANGED <<startVars, regVars, mu, closer, ret, flows, accs, closeVars, upVars,
                   loopback, acquired, lbState>>

AuthSelect ==
    /\ authLoop.pc = "select"
    /\ \E pc \in AfterSelect(ShutdownSignaled) : authLoop' = [authLoop EXCEPT !.pc = pc]
    /\ UNCHANGED <<startVars, regVars, mu, closer, ret, flows, accs, closeVars, upVars,
                   loopback, acquired, lbState>>

\* the control backend moves to another state
LbStateChange(st) ==
    /\ lbState \in LbStates \ {st}
    /\ lbState' = st
    /\ UNCHANGED <<startVars, regVars, mu, closer, ret, flows, accs, closeVars, upVars,
                   loopback, acquired, authLoop>>

\* SpecAuth: Start on a new Server, the goroutine of printAuthURLLoop, the
\* backend's state changes, and Server.Close
\* the goroutine that calls Start there
AuthCallers == {"c1"}

NextAuth ==
    \/ \E c \in AuthCallers : StartCall(c, "Start")
    \/ \E c \in AuthCallers, failAt \in StartFailAts : DoInit(c, failAt)
    \/ \E c \in AuthCallers : StartReturn(c)
    \/ AuthCtxCheck
    \/ AuthStateCheck
    \/ AuthPoll
    \/ AuthSelect
    \/ \E st \in LbStates : LbStateChange(st)
    \/ ServerCloseStart
    \/ ServerCloseHandles
    \/ FlushLogs
    \/ LogoutSync
    \/ ServerCloseLock
    \/ ServerCloseListeners
    \/ ServerCloseReturn

SpecAuth == InitNew /\ [][NextAuth]_vars

\* the goroutine of printAuthURLLoop has a step to take
AuthLoopStep == AuthCtxCheck \/ AuthStateCheck \/ AuthPoll \/ AuthSelect

\* C22 as stated: the loop polls only while the state is NeedsLogin and
\* shutdown has not been signaled; once either has changed it performs no
\* further polling or logging.
C22_AsClaimed ==
    [][AuthPoll => (lbState = "NeedsLogin" /\ ~ShutdownSignaled)]_vars

\* C22: the loop never blocks Start (start() launches it and returns, and
\* Start returns wherever the loop is); the check of the shutdown signal at
\* the head of the loop and the check of the state each end the loop when
\* they find the signal fired or a state other than NeedsLogin; at the
\* select a fired signal lets the loop return; after the signal the loop
\* begins at most one more round of polling; and a loop that has returned
\* takes no further step.
C22_AuthLoopStops ==
    /\ [][\A c \in AuthCallers, failAt \in StartFailAts :
            (DoInit(c, failAt) /\ initErr' = "nil") =>
                /\ authLoop' = LaunchedAuthLoop
                /\ callers'[c].pc = "afterDo"]_vars
    /\ [](\A c \in AuthCallers : callers[c].pc = "afterDo" => ENABLED StartReturn(c))
    /\ [][(AuthCtxCheck /\ ShutdownSignaled) => authLoop'.pc = "exited"]_vars
    /\ [][(AuthStateCheck /\ lbState # "NeedsLogin") => authLoop'.pc = "exited"]_vars
    /\ []((authLoop.pc = "select" /\ ShutdownSignaled) =>
            ENABLED (AuthSelect /\ authLoop'.pc = "exited"))
    /\ [][AuthPoll => authLoop.pc = "poll"]_vars
    /\ [](authLoop.late <= 1)
    /\ [](authLoop.pc \in {"off", "exited"} => ~ENABLED AuthLoopStep)

\* the signal fired in the middle of a round: the loop has polled once more
\* and has then returned, and Close has returned
C22_Witness ==
    /\ authLoop.pc = "exited"
    /\ authLoop.late = 1
    /\ ShutdownSignaled
    /\ closer = "done"
    /\ \E c \in AuthCallers : callers[c].pc = "returned" /\ callers[c].ret = "nil"

-----------------------------------------------------------------------------
(* SpecShutdown: one call of Server.Close on a started node, with or
   without a loopback gateway and application listeners *)

ShutdownCalls == {<<"tcp", ":80">>}

NextShutdown ==
    \/ \E call \in ShutdownCalls : Listen(call[1], call[2])
    \/ \E ln \in 1..MaxListeners : LnClose(ln)
    \/ closer = "idle" /\ \E failAt \in LoopbackFailAts : LoopbackCall(failAt)
    \/ closeCalls = 0 /\ ServerCloseStart
    \/ ServerCloseHandles
    \/ FlushLogs
    \/ LogoutSync
    \/ ServerCloseLock
    \/ ServerCloseListeners
    \/ ServerCloseReturn

SpecShutdown == InitSpecClose /\ [][NextShutdown]_vars

\* the order of the claim
ClaimedOrder == <<"netstack", "shutdownCancel", "lb", "linkMon", "dialer",
                  "localAPIListener", "loopbackListener">>

\* the releases of the subsystems of the claim, in the order made
OrderedReleases ==
    SelectSeq(shutdownLog, LAMBDA r : \E i \in DOMAIN ClaimedOrder : ClaimedOrder[i] = r)

\* the subsystems of the claim the node has: all, the loopback listener
\* only when Loopback has opened it
Present(r) == r # "loopbackListener" \/ loopback.ln # 0

\* every subsystem the node has was released once, in the order of the claim
AllReleasedInOrder == OrderedReleases = SelectSeq(ClaimedOrder, Present)

\* the node is ephemeral on a mem.Store: Close logs out
LogoutDue == cfg.store = "mem" /\ cfg.ephemeral

\* C23: Server.Close shuts down virtual stack, shutdown context, control
\* backend, link monitor, dialer, control-API listener and loopback
\* listener in this order; it turns to the application listeners and the
\* registry only after all of these; it returns only after the log flush
\* and, when one is due, the logout have finished; it returns success.
C23_CloseOrder ==
    /\ [](closer \in {"idle", "started"} => OrderedReleases = << >>)
    /\ [](closer \in {"shutdown", "locked", "blocked", "wait", "done"} => AllReleasedInOrder)
    /\ [][(ServerCloseLock \/ ServerCloseListeners) => AllReleasedInOrder]_vars
    /\ [][(closer # "done" /\ closer' = "done") =>
            /\ AllReleasedInOrder
            /\ listeners' = EmptyMap
            /\ flusher = "done"
            /\ Releases("logtail") = 1 /\ Releases("logbuffer") = 1
            /\ LogoutDue => logouter = "done"
            /\ ret' = [op |-> "ServerClose", err |-> "nil", ln |-> NoLn]]_vars

\* Close has returned success on a node with a loopback gateway that logs
\* out, after an application listener had been opened and closed
C23_Witness ==
    /\ closer = "done"
    /\ ret = [op |-> "ServerClose", err |-> "nil", ln |-> NoLn]
    /\ OrderedReleases = ClaimedOrder
    /\ logouter = "done"
    /\ flusher = "done"
    /\ lns # << >>
    /\ listeners = EmptyMap

-----------------------------------------------------------------------------
(* C24: what becomes of a connection pushed to a listener *)

\* the connection of flow f is in the hands of an Accept that returned it
Returned(f) == \E a \in Accs : accs[a].conn = f

\* C24: a connection pushed to a listener that stays open ends in exactly
\* one way, returned by one Accept or closed by the dispatcher at the
\* timer: a push that is over on an open listener was delivered or closed;
\* an Accept holds a connection only if its push ended delivered, to the
\* listener Accept was called on; an Accept gets a connection only in the
\* step in which a push to its listener, still waiting, sends it; and a
\* push that is over stays as it ended.
C24_Conservation ==
    /\ [](\A f \in Flows :
            (PushOver(f) /\ ~lns[flows[f].handler].closed) => flows[f].pc \in {"sent", "closed"})
    /\ [](\A f \in Flows, a \in Accs :
            accs[a].conn = f => (flows[f].pc = "sent" /\ flows[f].handler = accs[a].ln))
    /\ [](\A f \in Flows : flows[f].pc = "closed" => ~Returned(f))
    /\ [][\A a \in Accs :
            (accs'[a].conn # NoConn /\ accs'[a] # accs[a]) =>
                \E f \in Flows :
                    /\ SelectSend(f, a)
                    /\ accs'[a].conn = f
                    /\ flows[f].pc = "select"
                    /\ flows[f].handler = accs[a].ln]_vars
    /\ [][\A f \in Flows : PushOver(f) => flows'[f] = flows[f]]_vars

\* two connections were pushed to one listener, which is still open: an
\* Accept returned one, the dispatcher closed the other at the timer
C24_Witness ==
    \E f \in Flows, g \in Flows :
        /\ flows[f].pc = "sent" /\ Returned(f)
        /\ flows[g].pc = "closed" /\ ~Returned(g)
        /\ flows[f].handler = flows[g].handler
        /\ ~lns[flows[f].handler].closed
=============================================================================
